---- MODULE Spec2Model ----
(***************************************************************************)
(* Device synchronisation jobs and their progress tracker                  *)
(* (tasks/models.py, tasks/device_tasks.py, employees/views.py).           *)
(*                                                                         *)
(* One background worker executes one job runner; the runner's position is *)
(* pc.  Every device call is one step and may raise; a raise outside the   *)
(* per-item try blocks runs the runner's fatal handler in the same step.   *)
(* The tracker row (db_task) is in the database; `task` is the runner's    *)
(* in-memory copy, written back field by field by save(update_fields).     *)
(***************************************************************************)
EXTENDS Integers, Sequences, FiniteSets, TLC

\* ------------------------------------------------------------------ bounds
MaxUid == 2
MaxPunches == 2
MaxTs == 1
MaxEdits == 1
MaxRuns == 2

\* ------------------------------------------------------- program constants
NumFingers == 10
NoTotal == -1

UIDS == 1..MaxUid
JobTypes == {"sync_to_device", "sync_from_device", "download_attendance"}
Terminal == {"completed", "failed"}

VARIABLES
    jobType,        \* which runner the queued task names
    deviceExists,   \* Device.objects.get(pk=device_id) finds a row
    pc,             \* position of the runner
    runs,           \* executions of the runner delivered so far
    db_task,        \* the TaskProgress row
    task,           \* the runner's in-memory TaskProgress object
    conn,           \* the device session: "none", "open", "closed"
    loc,            \* the runner's local variables
    Employee,       \* Employee table: uid -> row, or NoRow
    AttendanceEvent,\* AttendanceEvent table: a set of rows
    last_sync,      \* number of times Device.last_sync was stamped
    dev_users,      \* the device's user table: uid -> account id (user_id)
    dev_attendance, \* the device's attendance log
    edits,          \* local edits made so far
    hist,           \* history of calls, for stating the properties
    events,         \* AttendanceEvent timestamps of one employee on one day
    summary,        \* what get_daily_summary returned for them
    cmd,            \* the sync_attendance command and the download view
    poll,           \* the last response of the task_status endpoint
    fp,             \* the sync_fingerprints command
    Fingerprint,    \* the Fingerprint table: (employee, finger_index) pairs
    dev_templates,  \* the device's templates: (uid, slot) pairs
    table,          \* AttendanceEvent rows of several employees and days
    asked,          \* the start and end date of the range asked for
    ranged,         \* what get_date_range_summary returned
    dailies,        \* what get_daily_summary returned, date by date
    call,           \* the last TaskProgress method called on its own
    conc            \* two attendance downloads running side by side

vars == <<jobType, deviceExists, pc, runs, db_task, task, conn, loc, Employee,
          AttendanceEvent, last_sync, dev_users, dev_attendance, edits, hist,
          events, summary, cmd, poll, fp, Fingerprint, dev_templates,
          table, asked, ranged, dailies, call, conc>>

\* what the job runners read and write
runnerVars == <<jobType, deviceExists, pc, runs, db_task, task, conn, loc,
                Employee, AttendanceEvent, last_sync, dev_users,
                dev_attendance, edits, hist>>

\* what the requests outside the job runners read and write
\* what the sync_fingerprints command reads and writes
fpVars == <<fp, Fingerprint, dev_templates>>

\* what the range reports read and write
rangeVars == <<table, asked, ranged, dailies>>

elsewhere == <<events, summary, cmd, poll, fpVars, rangeVars, call, conc>>

\* --------------------------------------------------------- TaskProgress
NewTask(msg) ==
    [status |-> "pending", progress_current |-> 0, progress_total |-> 0,
     progress_percentage |-> 0, success_count |-> 0, error_count |-> 0,
     message |-> msg, error_details |-> <<>>,
     started_at |-> FALSE, completed_at |-> FALSE]

\* save(update_fields=fields): only the named columns reach the row
Save(row, obj, fields) ==
    [f \in DOMAIN row |-> IF f \in fields THEN obj[f] ELSE row[f]]

\* int((current / total) * 100) on Python floats: the quotient is rounded
\* before it is scaled, so these pairs truncate one below the exact floor
FloatShort ==
    {<<23, 5>>, <<41, 5>>, <<46, 5>>, <<51, 5>>, <<82, 5>>, <<87, 5>>,
     <<92, 5>>, <<97, 5>>, <<102, 5>>, <<23, 10>>, <<41, 10>>, <<46, 10>>,
     <<51, 10>>, <<82, 10>>, <<87, 10>>, <<92, 10>>, <<97, 10>>,
     <<102, 10>>, <<69, 15>>, <<123, 15>>, <<23, 20>>, <<41, 20>>,
     <<46, 20>>, <<51, 20>>, <<82, 20>>, <<87, 20>>, <<92, 20>>, <<97, 20>>,
     <<102, 20>>, <<29, 25>>, <<57, 25>>, <<58, 25>>, <<113, 25>>,
     <<114, 25>>, <<115, 25>>, <<116, 25>>}

Percentage(current, total) ==
    IF <<current, total>> \in FloatShort
    THEN (current * 100) \div total - 1
    ELSE (current * 100) \div total

\* A tracker handle ts = [obj |-> in-memory object, row |-> database row]
Load(row) == [obj |-> row, row |-> row]

ProgressFields ==
    {"progress_current", "progress_total", "progress_percentage", "message"}

\* update_progress that zeroes the percentage when there is no total
update_progress_zeroes(ts, current, total, message) ==
    LET t1 == [ts.obj EXCEPT !.progress_current = current,
                             !.progress_total =
                                 IF total # NoTotal THEN total ELSE @]
        t2 == IF t1.progress_total > 0
              THEN [t1 EXCEPT !.progress_percentage =
                        Percentage(t1.progress_current, t1.progress_total)]
              ELSE [t1 EXCEPT !.progress_percentage = 0]
        t3 == IF message # "" THEN [t2 EXCEPT !.message = message] ELSE t2
    IN  [obj |-> t3, row |-> Save(ts.row, t3, ProgressFields)]

update_progress(ts, current, total, message) ==
    LET t1 == [ts.obj EXCEPT !.progress_current = current,
                             !.progress_total =
                                 IF total # NoTotal THEN total ELSE @]
        t2 == IF t1.progress_total > 0
              THEN [t1 EXCEPT !.progress_percentage =
                        Percentage(t1.progress_current, t1.progress_total)]
              ELSE t1
        t3 == IF message # "" THEN [t2 EXCEPT !.message = message] ELSE t2
    IN  [obj |-> t3, row |-> Save(ts.row, t3, ProgressFields)]

mark_running(ts) ==
    LET t1 == [ts.obj EXCEPT !.status = "running", !.started_at = TRUE]
    IN  [obj |-> t1, row |-> Save(ts.row, t1, {"status", "started_at"})]

mark_completed(ts, message) ==
    LET t1 == [ts.obj EXCEPT !.status = "completed", !.completed_at = TRUE,
                             !.progress_percentage = 100]
        t2 == IF message # "" THEN [t1 EXCEPT !.message = message] ELSE t1
    IN  [obj |-> t2,
         row |-> Save(ts.row, t2, {"status", "completed_at",
                                   "progress_percentage", "message"})]

\* mark_failed with 'status' left out of update_fields
mark_failed_status_unsaved(ts, error_message) ==
    LET t1 == [ts.obj EXCEPT !.status = "failed", !.completed_at = TRUE,
                             !.message = error_message]
    IN  [obj |-> t1, row |-> Save(ts.row, t1, {"completed_at", "message"})]

mark_failed(ts, error_message) ==
    LET t1 == [ts.obj EXCEPT !.status = "failed", !.completed_at = TRUE,
                             !.message = error_message]
    IN  [obj |-> t1,
         row |-> Save(ts.row, t1, {"status", "completed_at", "message"})]

\* add_error that starts a fresh list on every call
add_error_resets_list(ts, error_detail) ==
    LET t1 == [ts.obj EXCEPT !.error_details = <<error_detail>>,
                             !.error_count = @ + 1]
    IN  [obj |-> t1,
         row |-> Save(ts.row, t1, {"error_details", "error_count"})]

add_error(ts, error_detail) ==
    LET t1 == [ts.obj EXCEPT !.error_details = Append(@, error_detail),
                             !.error_count = @ + 1]
    IN  [obj |-> t1,
         row |-> Save(ts.row, t1, {"error_details", "error_count"})]

\* a fatal handler that also wipes the errors recorded so far
FatalHandlerResets(row) ==
    LET ts == mark_failed(Load(row), "Fatal error")
    IN  [obj |-> [ts.obj EXCEPT !.error_details = <<>>, !.error_count = 0],
         row |-> [ts.row EXCEPT !.error_details = <<>>, !.error_count = 0]]

\* the runners' fatal handler: re-read the row, mark it failed
FatalHandler(row) == mark_failed(Load(row), "Fatal error")

\* a method of TaskProgress called on its own, outside the runners
NoCall == [op |-> "none", current |-> 0, total |-> NoTotal, n |-> 0]

\* ------------------------------------------------------------ the world
JobIds == {1, 2}

\* the locals of one of two concurrent runs of async_download_attendance
QueuedJob ==
    [pc |-> "queued", attendance_records |-> <<>>, i |-> 0, employee |-> 0,
     success_count |-> 0, duplicate_count |-> 0, error_count |-> 0,
     failed |-> FALSE]

\* before: the AttendanceEvent rows when the two jobs were queued
NoConc == [before |-> {}, job |-> [j \in JobIds |-> QueuedJob]]

\* employee_id and the device's account id are codes: k > 0 stands for the
\* string "EMP" followed by k in four digits, 0 for the blank string
\* names are strings: sequences of characters
PlainFirst == <<"a">>
PlainLast == <<"b">>
PlainName == <<"a", " ", "b">>

NoRow ==
    [present |-> FALSE, is_active |-> FALSE, synced_to_device |-> FALSE,
     employee_id |-> 0, first_name |-> <<>>, last_name |-> <<>>]
EmpRow(active, synced, eid) ==
    [present |-> TRUE, is_active |-> active, synced_to_device |-> synced,
     employee_id |-> eid, first_name |-> PlainFirst, last_name |-> PlainLast]

NoUser == [present |-> FALSE, user_id |-> 0, name |-> <<>>]
NamedUser(account, name) ==
    [present |-> TRUE, user_id |-> account, name |-> name]
DevUser(account) == NamedUser(account, PlainName)

Punches == [user_id : UIDS, timestamp : 1..MaxTs, punch : {0, 1}]

RECURSIVE SeqsUpTo(_, _)
SeqsUpTo(S, n) ==
    IF n = 0 THEN {<<>>}
    ELSE LET shorter == SeqsUpTo(S, n - 1)
         IN  shorter \cup {Append(q, x) : q \in shorter, x \in S}

\* ascending sequence of a set of integers
RECURSIVE Ascending(_)
Ascending(S) ==
    IF S = {} THEN <<>>
    ELSE LET m == CHOOSE x \in S : \A y \in S : x <= y
         IN  <<m>> \o Ascending(S \ {m})

Rotate(u) == (u % MaxUid) + 1

LocInit ==
    [i |-> 0, finger_idx |-> 0, total |-> 0, deleted_count |-> 0,
     success_count |-> 0, updated_count |-> 0, duplicate_count |-> 0,
     error_count |-> 0, users_to_delete |-> <<>>, employees |-> <<>>,
     users |-> <<>>, attendance_records |-> <<>>]

RunHist ==
    [updated |-> FALSE, failedOp |-> "", deleteIssued |-> {},
     deleteOk |-> {}, slotTried |-> [u \in UIDS |-> 0], slotFailed |-> {},
     setUserOk |-> {}, setUserFail |-> {}, attempted |-> 0,
     rowsAtStart |-> 0, onDevice |-> {}]

HistInit == [errLog |-> <<>>, firstSeen |-> {}, run |-> RunHist]

\* ------------------------------------------------ attendance/reports.py
MaxEvents == 4

MinGap == 30
DayStart == 6 * 60
DayEnd == 22 * 60
MinutesPerDay == 24 * 60

\* minutes after midnight: either side of both ends of the working day,
\* and gaps of 5, 29, 30 and 480 minutes from 09:00
Times == {359, 360, 540, 545, 569, 570, 1020, 1320, 1321}

\* event.timestamp.time()
TimeOfDay(t) == t % MinutesPerDay

\* a filter that keeps every event
filter_nothing(evs) == evs

filter_working_hours(evs) ==
    SelectSeq(evs, LAMBDA t : DayStart <= TimeOfDay(t) /\ TimeOfDay(t) <= DayEnd)

\* sorted(events, key=lambda e: e.timestamp) and order_by('timestamp')
RECURSIVE insert(_, _)
insert(s, t) ==
    IF s = <<>> THEN <<t>>
    ELSE IF t < Head(s) THEN <<t>> \o s
    ELSE <<Head(s)>> \o insert(Tail(s), t)

RECURSIVE sorted(_)
sorted(evs) ==
    IF evs = <<>> THEN <<>>
    ELSE insert(sorted(SubSeq(evs, 1, Len(evs) - 1)), evs[Len(evs)])

\* pairing the 1st with the 2nd whatever the time between them
next_event(s, i, j) == j

\* the inner while: the first j at or after the given one that is at
\* least MinGap after s[i], or Len(s) + 1 when there is none
RECURSIVE second_event(_, _, _)
second_event(s, i, j) ==
    IF j > Len(s) THEN j
    ELSE IF s[j] - s[i] >= MinGap THEN j
    ELSE second_event(s, i, j + 1)

\* the outer while, with positions counted from 1
RECURSIVE pair_from(_, _)
pair_from(s, i) ==
    IF i >= Len(s) THEN <<>>
    ELSE LET j == second_event(s, i, i + 1)
         IN  IF j <= Len(s)
             THEN <<[first |-> i, second |-> j,
                     first_timestamp |-> s[i], second_timestamp |-> s[j],
                     minutes |-> s[j] - s[i]]>> \o pair_from(s, j + 1)
             ELSE pair_from(s, i + 1)

pair_events(evs) ==
    IF Len(evs) < 2 THEN <<>> ELSE pair_from(sorted(evs), 1)

NoSummary ==
    [returned |-> FALSE, present |-> FALSE, events |-> <<>>, pairs |-> <<>>,
     total_pairs |-> 0, unpaired_events |-> 0]

\* the entry of the one employee; no entry when no event passes the filter
get_daily_summary(rows) ==
    LET evs == filter_working_hours(sorted(rows))
        pairs == pair_events(evs)
    IN  IF evs = <<>>
        THEN [NoSummary EXCEPT !.returned = TRUE]
        ELSE [returned |-> TRUE, present |-> TRUE, events |-> evs,
              pairs |-> pairs, total_pairs |-> Len(pairs),
              unpaired_events |-> Len(evs) - Len(pairs) * 2]

NoReport == events = <<>> /\ summary = NoSummary

\* ---- get_date_range_summary and the daily summary of several employees
MaxDay == 1
MaxRows == 3

Dates == 0..MaxDay

\* 05:59, 09:00 and 17:00
RowTimes == {359, 540, 1020}

\* a row is [employee, timestamp]; the timestamp counts minutes from the
\* midnight that starts date 0
RowValues ==
    [employee : UIDS,
     timestamp : {d * MinutesPerDay + t : d \in Dates, t \in RowTimes}]

\* grouping every event under one date
OneDate(t) == 0

\* event.timestamp.date()
DateOf(t) == t \div MinutesPerDay

\* datetime.combine(date, datetime.min.time()) and (date, datetime.max.time())
DayMin(date) == date * MinutesPerDay
DayMax(date) == date * MinutesPerDay + MinutesPerDay - 1

\* order_by('timestamp') over a set of rows
RECURSIVE by_timestamp(_)
by_timestamp(R) ==
    IF R = {} THEN <<>>
    ELSE LET m == CHOOSE x \in R :
                    \A y \in R :
                        \/ x.timestamp < y.timestamp
                        \/ x.timestamp = y.timestamp
                            /\ x.employee <= y.employee
         IN  <<m>> \o by_timestamp(R \ {m})

\* order_by('employee', 'timestamp')
RECURSIVE by_employee_timestamp(_)
by_employee_timestamp(R) ==
    IF R = {} THEN <<>>
    ELSE LET m == CHOOSE x \in R :
                    \A y \in R :
                        \/ x.employee < y.employee
                        \/ x.employee = y.employee
                            /\ x.timestamp <= y.timestamp
         IN  <<m>> \o by_employee_timestamp(R \ {m})

\* filter_working_hours over rows
filter_rows(q) ==
    SelectSeq(q, LAMBDA r : /\ DayStart <= TimeOfDay(r.timestamp)
                            /\ TimeOfDay(r.timestamp) <= DayEnd)

Timestamps(q) == [k \in 1..Len(q) |-> q[k].timestamp]

\* sum(duration for _, _, duration in pairs)
RECURSIVE total_work_minutes(_)
total_work_minutes(pairs) ==
    IF pairs = <<>> THEN 0
    ELSE Head(pairs).minutes + total_work_minutes(Tail(pairs))

NoEntry ==
    [present |-> FALSE, pairs |-> <<>>, total_pairs |-> 0,
     total_work_minutes |-> 0, first_entry |-> -1, last_exit |-> -1,
     unpaired_events |-> 0]

\* the dictionary built for one group of events; -1 for None
Entry(evs) ==
    LET pairs == pair_events(evs)
    IN  IF evs = <<>> THEN NoEntry
        ELSE [present |-> TRUE, pairs |-> pairs, total_pairs |-> Len(pairs),
              total_work_minutes |-> total_work_minutes(pairs),
              first_entry |-> IF pairs = <<>> THEN -1
                              ELSE pairs[1].first_timestamp,
              last_exit |-> IF pairs = <<>> THEN -1
                            ELSE pairs[Len(pairs)].second_timestamp,
              unpaired_events |-> Len(evs) - Len(pairs) * 2]

\* get_daily_summary(date) over the whole table, employee by employee
daily_summary(R, date) ==
    LET inday == {r \in R : /\ DayMin(date) <= r.timestamp
                            /\ r.timestamp <= DayMax(date)}
        kept == filter_rows(by_employee_timestamp(inday))
    IN  [e \in UIDS |->
            Entry(Timestamps(SelectSeq(kept, LAMBDA r : r.employee = e)))]

\* get_date_range_summary(start_date, end_date): date -> employee -> entry
date_range_summary(R, start_date, end_date) ==
    LET inrange == {r \in R : /\ DayMin(start_date) <= r.timestamp
                              /\ r.timestamp <= DayMax(end_date)}
        kept == filter_rows(by_timestamp(inrange))
    IN  [d \in Dates |-> [e \in UIDS |->
            Entry(Timestamps(SelectSeq(kept,
                LAMBDA r : DateOf(r.timestamp) = d /\ r.employee = e)))]]

NoRangeReport ==
    /\ table = {} /\ asked = <<0, 0>>
    /\ ranged = <<>> /\ dailies = <<>>

\* ------------------------------------------------- tasks/views.py
Callers == {"owner", "other", "staff", "anonymous"}

is_staff(caller) == caller = "staff"

NoPoll == [caller |-> "", known |-> FALSE, code |-> 0, error |-> "",
           task |-> <<>>]

MaxShown == 10

\* the 'task' object of the JSON response
Body(row) ==
    [status |-> row.status,
     progress_current |-> row.progress_current,
     progress_total |-> row.progress_total,
     progress_percentage |-> row.progress_percentage,
     message |-> row.message,
     success_count |-> row.success_count,
     error_count |-> row.error_count,
     error_details |->
        SubSeq(row.error_details, 1,
               IF Len(row.error_details) < MaxShown
               THEN Len(row.error_details) ELSE MaxShown),
     is_finished |-> row.status \in {"completed", "failed", "cancelled"}]

\* every logged-in caller may read
AnyUser(caller) == TRUE

\* not (task.user != request.user and not request.user.is_staff)
Permitted(caller) == caller = "owner" \/ is_staff(caller)

\* @login_required, then the view; known: a row has the task_id asked for
task_status(caller, known, row) ==
    IF caller = "anonymous"
    THEN [caller |-> caller, known |-> known, code |-> 302, error |-> "",
          task |-> <<>>]
    ELSE IF ~known
    THEN [caller |-> caller, known |-> known, code |-> 404,
          error |-> "Task not found", task |-> <<>>]
    ELSE IF ~Permitted(caller)
    THEN [caller |-> caller, known |-> known, code |-> 403,
          error |-> "Permission denied", task |-> <<>>]
    ELSE [caller |-> caller, known |-> known, code |-> 200, error |-> "",
          task |-> <<Body(row)>>]

\* ---------------- employees/management/commands/sync_fingerprints.py
\* the finger slots the sample device and table hold templates in
SampleSlots == {0, NumFingers - 1}

FpIdle ==
    [pc |-> "idle", direction |-> "from", employee |-> 0,
     employees |-> <<>>, i |-> 0, fingerprints |-> <<>>, j |-> 0,
     conn |-> "none", failedOp |-> "",
     downloaded |-> {}, uploaded |-> {}, total_uploaded |-> 0]

NoFingerprintSync ==
    fp = FpIdle /\ Fingerprint = {} /\ dev_templates = {}

\* the locals of Command.handle; clears counts the clear_attendance calls,
\* invoked the requests made so far
CmdIdle ==
    [pc |-> "idle", clear_device |-> FALSE, conn |-> "none",
     attendance_records |-> <<>>, i |-> 0, success_count |-> 0,
     duplicate_count |-> 0, error_count |-> 0, clears |-> 0, invoked |-> 0]

\* the rows each job reads; what it never reads is left empty
InitTo ==
    /\ jobType = "sync_to_device"
    /\ \E kind \in [UIDS -> {"inactive", "active", "synced"}] :
        Employee = [u \in UIDS |->
            EmpRow(kind[u] # "inactive", kind[u] = "synced", u)]
    /\ \E D \in SUBSET UIDS :
        dev_users = [u \in UIDS |-> IF u \in D THEN DevUser(u) ELSE NoUser]
    /\ dev_attendance = <<>>

InitFrom ==
    /\ jobType = "sync_from_device"
    /\ \E rot \in BOOLEAN, P \in SUBSET UIDS :
        Employee = [u \in UIDS |->
            IF u \in P
            THEN EmpRow(TRUE, FALSE, IF rot THEN Rotate(u) ELSE u)
            ELSE NoRow]
    /\ \E acc \in [UIDS -> {"absent", "blank", "own"}] :
        dev_users = [u \in UIDS |->
            IF acc[u] = "absent" THEN NoUser
            ELSE DevUser(IF acc[u] = "blank" THEN 0 ELSE u)]
    /\ dev_attendance = <<>>

InitAtt ==
    /\ jobType = "download_attendance"
    /\ \E P \in SUBSET UIDS :
        Employee = [u \in UIDS |->
            IF u \in P THEN EmpRow(TRUE, FALSE, u) ELSE NoRow]
    /\ dev_users = [u \in UIDS |-> NoUser]
    /\ dev_attendance \in SeqsUpTo(Punches, MaxPunches)

Init ==
    /\ deviceExists \in BOOLEAN
    /\ pc = "start"
    /\ runs = 1
    /\ db_task = NewTask("Queuing")
    /\ task = NewTask("Queuing")
    /\ conn = "none"
    /\ loc = LocInit
    /\ AttendanceEvent = {}
    /\ last_sync = 0
    /\ edits = 0
    /\ hist = HistInit
    /\ (InitTo \/ InitFrom \/ InitAtt)
    /\ NoReport
    /\ cmd = CmdIdle
    /\ poll = NoPoll
    /\ NoFingerprintSync
    /\ NoRangeReport
    /\ call = NoCall
    /\ conc = NoConc

\* ------------------------------------------------- steps of the runners
Raise(row, op, h) ==
    LET f == FatalHandler(row)
    IN  /\ task' = f.obj
        /\ db_task' = f.row
        /\ pc' = "done"
        /\ hist' = [h EXCEPT !.run.failedOp = op]

Handle(ts) == task' = ts.obj /\ db_task' = ts.row

Updated(h) == [h EXCEPT !.run.updated = TRUE]
Logged(h, e) == [h EXCEPT !.errLog = Append(@, e)]

ActiveUids == {u \in UIDS : Employee[u].present /\ Employee[u].is_active}

\* Employee.Meta.ordering = ['employee_id']
RECURSIVE ByEmployeeId(_)
ByEmployeeId(S) ==
    IF S = {} THEN <<>>
    ELSE LET m == CHOOSE x \in S :
                    \A y \in S : Employee[x].employee_id
                                   <= Employee[y].employee_id
         IN  <<[user_id |-> m, employee_id |-> Employee[m].employee_id]>>
             \o ByEmployeeId(S \ {m})

\* task = TaskProgress.objects.get(task_id=task_id); task.mark_running()
\* (the first two statements of all three runners)
MarkRunning ==
    /\ pc = "start"
    /\ Handle(mark_running(Load(db_task)))
    /\ pc' = "lookup"
    /\ hist' = [hist EXCEPT
            !.run.rowsAtStart = Cardinality(AttendanceEvent)]
    /\ UNCHANGED <<jobType, deviceExists, runs, conn, loc, Employee,
                   AttendanceEvent, last_sync, dev_users, dev_attendance,
                   edits, elsewhere>>

\* ---- async_sync_employees_to_device
ToStart ==
    /\ pc = "lookup" /\ jobType = "sync_to_device"
    /\ LET ts1 == [obj |-> task, row |-> db_task]
           n == Cardinality(ActiveUids)
       IN  IF deviceExists
           THEN /\ Handle(update_progress(ts1, 0, n + 10, "Connecting"))
                /\ loc' = [loc EXCEPT !.total = n]
                /\ pc' = "connect"
                /\ hist' = Updated(hist)
           ELSE /\ Raise(ts1.row, "device", hist)
                /\ loc' = loc
    /\ UNCHANGED <<jobType, deviceExists, runs, conn, Employee,
                   AttendanceEvent, last_sync, dev_users, dev_attendance,
                   edits, elsewhere>>

ToConnect ==
    /\ pc = "connect" /\ jobType = "sync_to_device"
    /\ \E ok \in BOOLEAN :
        IF ok
        THEN /\ conn' = "open"
             /\ Handle(update_progress([obj |-> task, row |-> db_task],
                                       5, NoTotal, "Connected"))
             /\ pc' = "get_users"
             /\ hist' = hist
        ELSE /\ Raise(db_task, "connect", hist)
             /\ conn' = conn
    /\ UNCHANGED <<jobType, deviceExists, runs, loc, Employee,
                   AttendanceEvent, last_sync, dev_users, dev_attendance,
                   edits, elsewhere>>

DeviceUids == {u \in UIDS : dev_users[u].present}

\* deleting every user found on the device
every_device_user(device_user_ids, db_user_ids) == device_user_ids

\* users_to_delete = device_user_ids - db_user_ids
users_to_delete(device_user_ids, db_user_ids) ==
    device_user_ids \ db_user_ids

ToGetUsers ==
    /\ pc = "get_users" /\ jobType = "sync_to_device"
    /\ \E ok \in BOOLEAN :
        IF ok
        THEN /\ Handle(update_progress([obj |-> task, row |-> db_task],
                                       10, NoTotal, "Found"))
             /\ loc' = [loc EXCEPT
                    !.employees = ByEmployeeId(ActiveUids),
                    !.users_to_delete =
                        Ascending(users_to_delete(DeviceUids, ActiveUids)),
                    !.deleted_count = 0,
                    !.i = 0]
             /\ pc' = "delete"
             /\ hist' = [hist EXCEPT !.run.onDevice = DeviceUids]
        ELSE /\ Raise(db_task, "get_users", hist)
             /\ loc' = loc
    /\ UNCHANGED <<jobType, deviceExists, runs, conn, Employee,
                   AttendanceEvent, last_sync, dev_users, dev_attendance,
                   edits, elsewhere>>

ToDeleteUser ==
    /\ pc = "delete" /\ jobType = "sync_to_device"
    /\ loc.i < Len(loc.users_to_delete)
    /\ LET uid == loc.users_to_delete[loc.i + 1]
           h == [hist EXCEPT !.run.deleteIssued = @ \cup {uid}]
       IN  \E ok \in BOOLEAN :
            IF ok
            THEN /\ dev_users' = [dev_users EXCEPT ![uid] = NoUser]
                 /\ loc' = [loc EXCEPT !.finger_idx = 0]
                 /\ pc' = "slots"
                 /\ hist' = [h EXCEPT !.run.deleteOk = @ \cup {uid}]
                 /\ UNCHANGED <<task, db_task>>
            ELSE /\ Handle(add_error([obj |-> task, row |-> db_task],
                                     <<"delete", uid>>))
                 /\ loc' = [loc EXCEPT !.i = @ + 1]
                 /\ pc' = pc
                 /\ hist' = Logged(h, <<"delete", uid>>)
                 /\ dev_users' = dev_users
    /\ UNCHANGED <<jobType, deviceExists, runs, conn, Employee,
                   AttendanceEvent, last_sync, dev_attendance, edits, elsewhere>>

\* the finger loop without its inner try: a failing slot ends the user
DeleteSlotStopsOnFailure(uid, ok) ==
    /\ hist' = [hist EXCEPT
            !.run.slotTried[uid] = @ + 1,
            !.run.slotFailed = IF ok THEN @ ELSE @ \cup {uid}]
    /\ IF ~ok
       THEN /\ loc' = [loc EXCEPT !.i = @ + 1]
            /\ pc' = "delete"
       ELSE IF loc.finger_idx + 1 < NumFingers
       THEN /\ loc' = [loc EXCEPT !.finger_idx = @ + 1]
            /\ pc' = pc
       ELSE /\ loc' = [loc EXCEPT !.deleted_count = @ + 1, !.i = @ + 1]
            /\ pc' = "delete"

\* one pass of the finger loop; the bare except swallows a failure
DeleteSlot(uid, ok) ==
    /\ hist' = [hist EXCEPT
            !.run.slotTried[uid] = @ + 1,
            !.run.slotFailed = IF ok THEN @ ELSE @ \cup {uid}]
    /\ IF loc.finger_idx + 1 < NumFingers
       THEN /\ loc' = [loc EXCEPT !.finger_idx = @ + 1]
            /\ pc' = pc
       ELSE /\ loc' = [loc EXCEPT !.deleted_count = @ + 1, !.i = @ + 1]
            /\ pc' = "delete"

ToDeleteSlot ==
    /\ pc = "slots" /\ jobType = "sync_to_device"
    /\ \E ok \in BOOLEAN : DeleteSlot(loc.users_to_delete[loc.i + 1], ok)
    /\ UNCHANGED <<jobType, deviceExists, runs, db_task, task, conn,
                   Employee, AttendanceEvent, last_sync, dev_users,
                   dev_attendance, edits, elsewhere>>

ToAfterDelete ==
    /\ pc = "delete" /\ jobType = "sync_to_device"
    /\ loc.i = Len(loc.users_to_delete)
    /\ IF loc.deleted_count > 0
       THEN Handle(update_progress([obj |-> task, row |-> db_task],
                                   10, NoTotal, "Removed"))
       ELSE UNCHANGED <<task, db_task>>
    /\ loc' = [loc EXCEPT !.success_count = 0, !.error_count = 0, !.i = 0]
    /\ pc' = "upsert"
    /\ UNCHANGED <<jobType, deviceExists, runs, conn, Employee,
                   AttendanceEvent, last_sync, dev_users, dev_attendance,
                   edits, hist, elsewhere>>

\* the upload without the flag assignment
SaveUnsynced(emp) == EmpRow(TRUE, FALSE, emp.employee_id)

\* emp.save() writes every column of the object read at line 50
SaveSynced(emp) == EmpRow(TRUE, TRUE, emp.employee_id)

SetUserOk(emp) ==
    /\ dev_users' = [dev_users EXCEPT ![emp.user_id] = DevUser(emp.employee_id)]
    /\ Employee' = [Employee EXCEPT ![emp.user_id] = SaveSynced(emp)]
    /\ loc' = [loc EXCEPT !.success_count = @ + 1, !.i = @ + 1]
    /\ Handle(update_progress([obj |-> task, row |-> db_task],
                              10 + loc.i + 1, NoTotal, "Synced"))
    /\ hist' = [hist EXCEPT !.run.setUserOk = @ \cup {emp.user_id},
                            !.run.attempted = @ + 1]
    /\ pc' = pc

\* a failing set_user that leaves the loop through the fatal handler
SetUserAborts(emp) ==
    /\ Raise(db_task, "set_user", hist)
    /\ UNCHANGED <<loc, dev_users, Employee>>

SetUserFailed(emp) ==
    /\ loc' = [loc EXCEPT !.error_count = @ + 1, !.i = @ + 1]
    /\ Handle(add_error([obj |-> task, row |-> db_task],
                        <<"employee", emp.user_id>>))
    /\ hist' = [Logged(hist, <<"employee", emp.user_id>>) EXCEPT
                    !.run.setUserFail = @ \cup {emp.user_id},
                    !.run.attempted = @ + 1]
    /\ pc' = pc
    /\ UNCHANGED <<dev_users, Employee>>

ToSetUser ==
    /\ pc = "upsert" /\ jobType = "sync_to_device"
    /\ loc.i < Len(loc.employees)
    /\ \E ok \in BOOLEAN :
        IF ok THEN SetUserOk(loc.employees[loc.i + 1])
              ELSE SetUserFailed(loc.employees[loc.i + 1])
    /\ UNCHANGED <<jobType, deviceExists, runs, conn, AttendanceEvent,
                   last_sync, dev_attendance, edits, elsewhere>>

ToDisconnect ==
    /\ pc = "upsert" /\ jobType = "sync_to_device"
    /\ loc.i = Len(loc.employees)
    /\ \E ok \in BOOLEAN :
        IF ok
        THEN /\ conn' = "closed"
             /\ pc' = "save_device"
             /\ UNCHANGED <<task, db_task, hist>>
        ELSE /\ Raise(db_task, "disconnect", hist)
             /\ conn' = conn
    /\ UNCHANGED <<jobType, deviceExists, runs, loc, Employee,
                   AttendanceEvent, last_sync, dev_users, dev_attendance,
                   edits, elsewhere>>

\* stamping last_sync once the session is asked for
SaveDeviceOnConnect ==
    /\ pc = "connect" /\ last_sync = 0
    /\ last_sync' = last_sync + 1
    /\ UNCHANGED <<jobType, deviceExists, pc, runs, db_task, task, conn, loc,
                   Employee, AttendanceEvent, dev_users, dev_attendance,
                   edits, hist, elsewhere>>

\* device.last_sync = timezone.now(); device.save()  (all three runners)
SaveDevice ==
    /\ pc = "save_device"
    /\ last_sync' = last_sync + 1
    /\ pc' = "complete"
    /\ UNCHANGED <<jobType, deviceExists, runs, db_task, task, conn, loc,
                   Employee, AttendanceEvent, dev_users, dev_attendance,
                   edits, hist, elsewhere>>

\* task.success_count / task.error_count are assigned on the object only
Complete ==
    /\ pc = "complete"
    /\ Handle(mark_completed(
            [obj |-> [task EXCEPT !.success_count = loc.success_count,
                                  !.error_count = loc.error_count],
             row |-> db_task],
            "Completed"))
    /\ pc' = "done"
    /\ UNCHANGED <<jobType, deviceExists, runs, conn, loc, Employee,
                   AttendanceEvent, last_sync, dev_users, dev_attendance,
                   edits, hist, elsewhere>>

\* ---- async_sync_employees_from_device
FromStart ==
    /\ pc = "lookup" /\ jobType = "sync_from_device"
    /\ LET ts1 == [obj |-> task, row |-> db_task]
       IN  IF deviceExists
           THEN /\ Handle(update_progress(ts1, 0, 100, "Connecting"))
                /\ pc' = "connect"
                /\ hist' = Updated(hist)
           ELSE Raise(ts1.row, "device", hist)
    /\ UNCHANGED <<jobType, deviceExists, runs, conn, loc, Employee,
                   AttendanceEvent, last_sync, dev_users, dev_attendance,
                   edits, elsewhere>>

FromConnect ==
    /\ pc = "connect" /\ jobType = "sync_from_device"
    /\ \E ok \in BOOLEAN :
        IF ok
        THEN /\ conn' = "open"
             /\ Handle(update_progress([obj |-> task, row |-> db_task],
                                       10, NoTotal, "Fetching"))
             /\ pc' = "get_users"
             /\ hist' = hist
        ELSE /\ Raise(db_task, "connect", hist)
             /\ conn' = conn
    /\ UNCHANGED <<jobType, deviceExists, runs, loc, Employee,
                   AttendanceEvent, last_sync, dev_users, dev_attendance,
                   edits, elsewhere>>

DeviceUserList ==
    LET ids == Ascending(DeviceUids)
    IN  [k \in 1..Len(ids) |->
            [uid |-> ids[k], user_id |-> dev_users[ids[k]].user_id,
             name |-> dev_users[ids[k]].name]]

FromGetUsers ==
    /\ pc = "get_users" /\ jobType = "sync_from_device"
    /\ \E ok \in BOOLEAN :
        IF ok
        THEN LET users == DeviceUserList
                 total_users == Len(users)
             IN  /\ Handle(update_progress(
                        [obj |-> task, row |-> db_task],
                        15, 15 + (total_users * 85) \div 100, "Found"))
                 /\ loc' = [loc EXCEPT
                        !.users = users, !.total = total_users,
                        !.success_count = 0, !.updated_count = 0,
                        !.error_count = 0, !.i = 0]
                 /\ pc' = "users"
                 /\ hist' = hist
        ELSE /\ Raise(db_task, "get_users", hist)
             /\ loc' = loc
    /\ UNCHANGED <<jobType, deviceExists, runs, conn, Employee,
                   AttendanceEvent, last_sync, dev_users, dev_attendance,
                   edits, elsewhere>>

\* the except clause of the per-user try
UserFailed(uid) ==
    /\ loc' = [loc EXCEPT !.error_count = @ + 1, !.i = @ + 1]
    /\ Handle(add_error([obj |-> task, row |-> db_task], <<"user", uid>>))
    /\ pc' = "users"

\* user.user_id or f'EMP{user.uid:04d}'
EmployeeIdOf(user) == IF user.user_id # 0 THEN user.user_id ELSE user.uid

\* Employee.employee_id is unique: another row holding it is an IntegrityError
IdTaken(uid, eid) ==
    \E v \in UIDS \ {uid} :
        Employee[v].present /\ Employee[v].employee_id = eid

\* str.split(): the maximal runs of characters other than whitespace
RECURSIVE split_from(_, _, _, _)
split_from(s, i, cur, out) ==
    LET closed == IF cur = <<>> THEN out ELSE Append(out, cur)
    IN  IF i > Len(s) THEN closed
        ELSE IF s[i] = " " THEN split_from(s, i + 1, <<>>, closed)
        ELSE split_from(s, i + 1, Append(cur, s[i]), out)

split(s) == split_from(s, 1, <<>>, <<>>)

\* ' '.join(tokens)
RECURSIVE join(_)
join(tokens) ==
    IF tokens = <<>> THEN <<>>
    ELSE IF Len(tokens) = 1 THEN tokens[1]
    ELSE tokens[1] \o <<" ">> \o join(Tail(tokens))

DigitChar(n) == <<"0", "1", "2", "3", "4", "5", "6", "7", "8", "9">>[n + 1]

\* str(n)
RECURSIVE Decimal(_)
Decimal(n) ==
    IF n < 10 THEN <<DigitChar(n)>>
    ELSE Decimal(n \div 10) \o <<DigitChar(n % 10)>>

\* f'User{user.uid}'
UserN(uid) == <<"U", "s", "e", "r">> \o Decimal(uid)

\* user.name.split()[0] of a name that is not empty and has no token
NameRaises(user) == user.name # <<>> /\ split(user.name) = <<>>

\* user.name.split()[0] if user.name else f'User{user.uid}'
first_name(user) ==
    IF user.name # <<>> THEN split(user.name)[1] ELSE UserN(user.uid)

\* ' '.join(user.name.split()[1:]) if len(user.name.split()) > 1 else ''
last_name(user) ==
    IF Len(split(user.name)) > 1 THEN join(Tail(split(user.name))) ELSE <<>>

\* the defaults of update_or_create
Defaults(user) ==
    [employee_id |-> EmployeeIdOf(user), first_name |-> first_name(user),
     last_name |-> last_name(user)]

\* Employee.objects.update_or_create(user_id=uid, defaults={...})
update_or_create(uid, defaults) ==
    IF Employee[uid].present
    THEN [Employee[uid] EXCEPT !.employee_id = defaults.employee_id,
                               !.first_name = defaults.first_name,
                               !.last_name = defaults.last_name,
                               !.synced_to_device = TRUE]
    ELSE [EmpRow(TRUE, TRUE, defaults.employee_id) EXCEPT
                               !.first_name = defaults.first_name,
                               !.last_name = defaults.last_name]

FromUpsert ==
    /\ pc = "users" /\ jobType = "sync_from_device"
    /\ loc.i < Len(loc.users)
    /\ LET user == loc.users[loc.i + 1]
           eid == EmployeeIdOf(user)
           h == [hist EXCEPT !.run.attempted = @ + 1]
       IN  IF NameRaises(user) \/ IdTaken(user.uid, eid)
           THEN /\ UserFailed(user.uid)
                /\ hist' = Logged(h, <<"user", user.uid>>)
                /\ Employee' = Employee
           ELSE /\ Employee' =
                    [Employee EXCEPT ![user.uid] =
                        update_or_create(user.uid, Defaults(user))]
                /\ loc' = IF Employee[user.uid].present
                          THEN [loc EXCEPT !.updated_count = @ + 1]
                          ELSE [loc EXCEPT !.success_count = @ + 1]
                /\ pc' = "templates"
                /\ hist' = h
                /\ UNCHANGED <<task, db_task>>
    /\ UNCHANGED <<jobType, deviceExists, runs, conn, AttendanceEvent,
                   last_sync, dev_users, dev_attendance, edits, elsewhere>>

\* get_all_fingerprint_templates, then the progress update of lines 200-204
FromTemplates ==
    /\ pc = "templates" /\ jobType = "sync_from_device"
    /\ LET user == loc.users[loc.i + 1]
       IN  \E ok \in BOOLEAN :
            IF ok
            THEN /\ Handle(update_progress(
                        [obj |-> task, row |-> db_task],
                        15 + ((loc.i + 1) * 85) \div loc.total,
                        NoTotal, "Processed"))
                 /\ loc' = [loc EXCEPT !.i = @ + 1]
                 /\ pc' = "users"
                 /\ hist' = hist
            ELSE /\ UserFailed(user.uid)
                 /\ hist' = Logged(hist, <<"user", user.uid>>)
    /\ UNCHANGED <<jobType, deviceExists, runs, conn, Employee,
                   AttendanceEvent, last_sync, dev_users, dev_attendance,
                   edits, elsewhere>>

FromDisconnect ==
    /\ pc = "users" /\ jobType = "sync_from_device"
    /\ loc.i = Len(loc.users)
    /\ \E ok \in BOOLEAN :
        IF ok
        THEN /\ conn' = "closed"
             /\ pc' = "save_device"
             /\ UNCHANGED <<task, db_task, hist>>
        ELSE /\ Raise(db_task, "disconnect", hist)
             /\ conn' = conn
    /\ UNCHANGED <<jobType, deviceExists, runs, loc, Employee,
                   AttendanceEvent, last_sync, dev_users, dev_attendance,
                   edits, elsewhere>>

\* ---- async_download_attendance
AttStart ==
    /\ pc = "lookup" /\ jobType = "download_attendance"
    /\ LET ts1 == [obj |-> task, row |-> db_task]
           h == hist
       IN  IF deviceExists
           THEN /\ Handle(update_progress(ts1, 0, 100, "Connecting"))
                /\ pc' = "connect"
                /\ hist' = Updated(h)
           ELSE Raise(ts1.row, "device", h)
    /\ UNCHANGED <<jobType, deviceExists, runs, conn, loc, Employee,
                   AttendanceEvent, last_sync, dev_users, dev_attendance,
                   edits, elsewhere>>

AttConnect ==
    /\ pc = "connect" /\ jobType = "download_attendance"
    /\ \E ok \in BOOLEAN :
        IF ok
        THEN /\ conn' = "open"
             /\ Handle(update_progress([obj |-> task, row |-> db_task],
                                       10, NoTotal, "Downloading"))
             /\ pc' = "get_attendance"
             /\ hist' = hist
        ELSE /\ Raise(db_task, "connect", hist)
             /\ conn' = conn
    /\ UNCHANGED <<jobType, deviceExists, runs, loc, Employee,
                   AttendanceEvent, last_sync, dev_users, dev_attendance,
                   edits, elsewhere>>

AttGetAttendance ==
    /\ pc = "get_attendance" /\ jobType = "download_attendance"
    /\ \E ok \in BOOLEAN :
        IF ok
        THEN LET total_records == Len(dev_attendance)
             IN  /\ Handle(update_progress(
                        [obj |-> task, row |-> db_task],
                        20, 20 + total_records, "Found"))
                 /\ loc' = [loc EXCEPT
                        !.attendance_records = dev_attendance,
                        !.total = total_records]
                 /\ pc' = "disconnect"
                 /\ hist' = hist
        ELSE /\ Raise(db_task, "get_attendance", hist)
             /\ loc' = loc
    /\ UNCHANGED <<jobType, deviceExists, runs, conn, Employee,
                   AttendanceEvent, last_sync, dev_users, dev_attendance,
                   edits, elsewhere>>

AttDisconnect ==
    /\ pc = "disconnect" /\ jobType = "download_attendance"
    /\ \E ok \in BOOLEAN :
        IF ok
        THEN /\ conn' = "closed"
             /\ loc' = [loc EXCEPT !.success_count = 0, !.error_count = 0,
                                   !.duplicate_count = 0, !.i = 0]
             /\ pc' = IF loc.total = 0 THEN "save_device" ELSE "records"
             /\ UNCHANGED <<task, db_task, hist>>
        ELSE /\ Raise(db_task, "disconnect", hist)
             /\ UNCHANGED <<conn, loc>>
    /\ UNCHANGED <<jobType, deviceExists, runs, Employee, AttendanceEvent,
                   last_sync, dev_users, dev_attendance, edits, elsewhere>>

SameKey(row, record) ==
    row.user_id = record.user_id /\ row.timestamp = record.timestamp

\* a plain create() in place of get_or_create
always_create(rows, record, employee) ==
    [rows |-> rows \cup
            {[id |-> Cardinality(rows) + 1, user_id |-> record.user_id,
              timestamp |-> record.timestamp, employee |-> employee,
              punch_type |-> record.punch]},
     created |-> TRUE]

\* AttendanceEvent.objects.get_or_create(device, user_id, timestamp, defaults)
get_or_create(rows, record, employee) ==
    IF \E row \in rows : SameKey(row, record)
    THEN [rows |-> rows, created |-> FALSE]
    ELSE [rows |-> rows \cup
                {[id |-> Cardinality(rows) + 1, user_id |-> record.user_id,
                  timestamp |-> record.timestamp, employee |-> employee,
                  punch_type |-> record.punch]},
          created |-> TRUE]

\* linking the punch to its user id whether or not an Employee has it
MatchByUserId(record) == record.user_id

\* Employee.objects.get(user_id=...), 0 for None
MatchEmployee(record) ==
    IF Employee[record.user_id].present THEN record.user_id ELSE 0

AttRecord ==
    /\ pc = "records" /\ jobType = "download_attendance"
    /\ loc.i < Len(loc.attendance_records)
    /\ LET record == loc.attendance_records[loc.i + 1]
           employee == MatchEmployee(record)
           got == get_or_create(AttendanceEvent, record, employee)
           last == loc.i = loc.total - 1
       IN  /\ AttendanceEvent' = got.rows
           /\ loc' = IF got.created
                     THEN [loc EXCEPT !.success_count = @ + 1, !.i = @ + 1]
                     ELSE [loc EXCEPT !.duplicate_count = @ + 1, !.i = @ + 1]
           /\ IF (loc.i + 1) % 10 = 0 \/ last
              THEN Handle(update_progress([obj |-> task, row |-> db_task],
                                          20 + loc.i + 1, NoTotal,
                                          "Processed"))
              ELSE UNCHANGED <<task, db_task>>
           /\ pc' = IF loc.i + 1 = Len(loc.attendance_records)
                    THEN "save_device" ELSE pc
           /\ hist' = [hist EXCEPT
                !.run.attempted = @ + 1,
                !.firstSeen =
                    IF \E f \in @ : SameKey(f, record) THEN @
                    ELSE @ \cup {[user_id |-> record.user_id,
                                  timestamp |-> record.timestamp,
                                  employee |-> employee,
                                  punch_type |-> record.punch]}]
    /\ UNCHANGED <<jobType, deviceExists, runs, conn, Employee, last_sync,
                   dev_users, dev_attendance, edits, elsewhere>>

\* ---- the environment
\* the queue delivers the same task again (at-least-once delivery)
Redeliver ==
    /\ pc = "done"
    /\ runs < MaxRuns
    /\ runs' = runs + 1
    /\ pc' = "start"
    /\ conn' = "none"
    /\ loc' = LocInit
    /\ hist' = [hist EXCEPT !.run = RunHist]
    /\ UNCHANGED <<jobType, deviceExists, db_task, task, Employee,
                   AttendanceEvent, last_sync, dev_users, dev_attendance,
                   edits, elsewhere>>

\* EmployeeUpdateView.form_valid: `changed` says some other field differs
\* form_valid without the has_changed branch
EditRowKeepsFlag(row, changed, active) == [row EXCEPT !.is_active = active]

EditRow(row, changed, active) ==
    [row EXCEPT !.is_active = active,
                !.synced_to_device =
                    IF changed \/ active # row.is_active THEN FALSE ELSE @]

EmployeeUpdate ==
    /\ edits < MaxEdits
    /\ \E u \in UIDS, changed \in BOOLEAN, active \in BOOLEAN :
        /\ Employee[u].present
        /\ Employee' = [Employee EXCEPT ![u] = EditRow(@, changed, active)]
    /\ edits' = edits + 1
    /\ UNCHANGED <<jobType, deviceExists, pc, runs, db_task, task, conn,
                   loc, AttendanceEvent, last_sync, dev_users,
                   dev_attendance, hist, elsewhere>>

RunnerStep ==
    \/ MarkRunning
    \/ ToStart \/ ToConnect \/ ToGetUsers \/ ToDeleteUser \/ ToDeleteSlot
    \/ ToAfterDelete \/ ToSetUser \/ ToDisconnect
    \/ FromStart \/ FromConnect \/ FromGetUsers \/ FromUpsert
    \/ FromTemplates \/ FromDisconnect
    \/ AttStart \/ AttConnect \/ AttGetAttendance \/ AttDisconnect
    \/ AttRecord
    \/ SaveDevice \/ Complete

\* the runners, with redelivery of a finished task
Next == RunnerStep \/ Redeliver

Spec == Init /\ [][Next]_vars

\* one delivery of a runner, with employee edits made while it runs
NextEdit == RunnerStep \/ EmployeeUpdate

SpecEdit == Init /\ [][NextEdit]_vars

\* ---- management command sync_attendance, and the download_attendance view
NoJobRunning == pc \in {"idle", "done"} /\ cmd.pc \in {"idle", "done"}

\* python manage.py sync_attendance <device_id> [--clear]
CmdInvoke ==
    /\ NoJobRunning
    /\ cmd.invoked < MaxRuns
    /\ \E clear \in BOOLEAN :
        cmd' = [CmdIdle EXCEPT !.pc = "connect", !.clear_device = clear,
                               !.clears = cmd.clears,
                               !.invoked = cmd.invoked + 1]
    /\ UNCHANGED <<runnerVars, events, summary, poll,
                   fpVars, rangeVars, call, conc>>

\* Device.objects.get and connector.connect(); either may raise
CmdConnect ==
    /\ cmd.pc = "connect"
    /\ \E ok \in BOOLEAN :
        cmd' = IF deviceExists /\ ok
               THEN [cmd EXCEPT !.pc = "get_attendance", !.conn = "open"]
               ELSE [cmd EXCEPT !.pc = "done"]
    /\ UNCHANGED <<runnerVars, events, summary, poll,
                   fpVars, rangeVars, call, conc>>

CmdGetAttendance ==
    /\ cmd.pc = "get_attendance"
    /\ \E ok \in BOOLEAN :
        cmd' = IF ok
               THEN [cmd EXCEPT !.attendance_records = dev_attendance,
                                !.pc = "records"]
               ELSE [cmd EXCEPT !.pc = "done"]
    /\ UNCHANGED <<runnerVars, events, summary, poll,
                   fpVars, rangeVars, call, conc>>

\* one record of the loop; the lookup or the insert may raise, and the
\* except clause of the per-record try then counts an error
CmdRecord ==
    /\ cmd.pc = "records"
    /\ cmd.i < Len(cmd.attendance_records)
    /\ LET record == cmd.attendance_records[cmd.i + 1]
           got == get_or_create(AttendanceEvent, record,
                                MatchEmployee(record))
       IN  \E ok \in BOOLEAN :
            IF ok
            THEN /\ AttendanceEvent' = got.rows
                 /\ cmd' = IF got.created
                           THEN [cmd EXCEPT !.success_count = @ + 1,
                                            !.i = @ + 1]
                           ELSE [cmd EXCEPT !.duplicate_count = @ + 1,
                                            !.i = @ + 1]
            ELSE /\ AttendanceEvent' = AttendanceEvent
                 /\ cmd' = [cmd EXCEPT !.error_count = @ + 1, !.i = @ + 1]
    /\ UNCHANGED <<jobType, deviceExists, pc, runs, db_task, task, conn, loc,
                   Employee, last_sync, dev_users, dev_attendance, edits,
                   hist, events, summary, poll,
                   fpVars, rangeVars, call, conc>>

\* clearing the log whenever --clear was given
ClearWheneverRequested(clear_device, success_count) == clear_device

\* if clear_device and success_count > 0
ShouldClear(clear_device, success_count) ==
    clear_device /\ success_count > 0

\* lines 93-99: the optional clear_attendance, then conn.disconnect()
CmdClear ==
    /\ cmd.pc = "records"
    /\ cmd.i = Len(cmd.attendance_records)
    /\ IF ShouldClear(cmd.clear_device, cmd.success_count)
       THEN \E ok \in BOOLEAN :
            /\ cmd' = [cmd EXCEPT !.clears = @ + 1,
                            !.pc = IF ok THEN "disconnect" ELSE "done"]
            /\ dev_attendance' = IF ok THEN <<>> ELSE dev_attendance
       ELSE /\ cmd' = [cmd EXCEPT !.pc = "disconnect"]
            /\ dev_attendance' = dev_attendance
    /\ UNCHANGED <<jobType, deviceExists, pc, runs, db_task, task, conn, loc,
                   Employee, AttendanceEvent, last_sync, dev_users, edits,
                   hist, events, summary, poll,
                   fpVars, rangeVars, call, conc>>

\* conn.disconnect(); device.last_sync = timezone.now(); device.save()
CmdDisconnect ==
    /\ cmd.pc = "disconnect"
    /\ \E ok \in BOOLEAN :
        IF ok
        THEN /\ cmd' = [cmd EXCEPT !.conn = "closed", !.pc = "done"]
             /\ last_sync' = last_sync + 1
        ELSE /\ cmd' = [cmd EXCEPT !.pc = "done"]
             /\ last_sync' = last_sync
    /\ UNCHANGED <<jobType, deviceExists, pc, runs, db_task, task, conn, loc,
                   Employee, AttendanceEvent, dev_users, dev_attendance,
                   edits, hist, events, summary, poll,
                   fpVars, rangeVars, call, conc>>

\* the for loop of the download_attendance view over the records read
RECURSIVE import_records(_, _)
import_records(rows, records) ==
    IF records = <<>> THEN rows
    ELSE import_records(
            get_or_create(rows, Head(records),
                          MatchEmployee(Head(records))).rows,
            Tail(records))

\* attendance/views.py download_attendance: the whole request
WebDownload ==
    /\ NoJobRunning
    /\ cmd.invoked < MaxRuns
    /\ cmd' = [cmd EXCEPT !.invoked = @ + 1]
    /\ \E ok \in BOOLEAN :
        IF deviceExists /\ ok
        THEN /\ AttendanceEvent' =
                    import_records(AttendanceEvent, dev_attendance)
             /\ last_sync' = last_sync + 1
        ELSE UNCHANGED <<AttendanceEvent, last_sync>>
    /\ UNCHANGED <<jobType, deviceExists, pc, runs, db_task, task, conn, loc,
                   Employee, dev_users, dev_attendance, edits, hist,
                   events, summary, poll,
                   fpVars, rangeVars, call, conc>>

\* the check-in punches, of an employee and of unknown users
CheckIns == {p \in Punches : p.punch = 0}

\* the attendance log is downloaded by the job, the command or the view
InitDownload ==
    /\ deviceExists \in BOOLEAN
    /\ pc \in {"start", "idle"}
    /\ runs = 1
    /\ db_task = NewTask("Queuing") /\ task = NewTask("Queuing")
    /\ conn = "none" /\ loc = LocInit
    /\ AttendanceEvent = {}
    /\ last_sync = 0 /\ edits = 0 /\ hist = HistInit
    /\ jobType = "download_attendance"
    /\ Employee = [u \in UIDS |->
            IF u = 1 THEN EmpRow(TRUE, FALSE, u) ELSE NoRow]
    /\ dev_users = [u \in UIDS |-> NoUser]
    /\ dev_attendance \in SeqsUpTo(CheckIns, MaxPunches)
    /\ NoReport
    /\ cmd = CmdIdle
    /\ poll = NoPoll
    /\ NoFingerprintSync
    /\ NoRangeReport
    /\ call = NoCall
    /\ conc = NoConc

NextDownload ==
    \/ MarkRunning \/ AttStart \/ AttConnect \/ AttGetAttendance
    \/ AttDisconnect \/ AttRecord \/ SaveDevice \/ Complete
    \/ CmdInvoke \/ CmdConnect \/ CmdGetAttendance \/ CmdRecord
    \/ CmdClear \/ CmdDisconnect \/ WebDownload

SpecDownload == InitDownload /\ [][NextDownload]_vars

\* ---- the status endpoint polled while a roster download runs
Poll ==
    /\ \E caller \in Callers, known \in BOOLEAN :
        poll' = task_status(caller, known, db_task)
    /\ UNCHANGED <<runnerVars, events, summary, cmd, fpVars, rangeVars, call, conc>>

InitPoll ==
    /\ deviceExists \in BOOLEAN
    /\ pc = "start" /\ runs = 1
    /\ db_task = NewTask("Queuing") /\ task = NewTask("Queuing")
    /\ conn = "none" /\ loc = LocInit
    /\ AttendanceEvent = {}
    /\ last_sync = 0 /\ edits = 0 /\ hist = HistInit
    /\ InitFrom
    /\ NoReport
    /\ cmd = CmdIdle
    /\ poll = NoPoll
    /\ NoFingerprintSync
    /\ NoRangeReport
    /\ call = NoCall
    /\ conc = NoConc

NextPoll ==
    \/ MarkRunning \/ FromStart \/ FromConnect \/ FromGetUsers
    \/ FromUpsert \/ FromTemplates \/ FromDisconnect \/ SaveDevice
    \/ Complete \/ Poll

SpecPoll == InitPoll /\ [][NextPoll]_vars

\* ---- the download of a roster whose first user has any short name
MaxNameLen == 4

Chars == {" ", "a", "b"}

InitImport ==
    /\ deviceExists = TRUE
    /\ pc = "start" /\ runs = 1
    /\ db_task = NewTask("Queuing") /\ task = NewTask("Queuing")
    /\ conn = "none" /\ loc = LocInit
    /\ AttendanceEvent = {}
    /\ last_sync = 0 /\ edits = 0 /\ hist = HistInit
    /\ jobType = "sync_from_device"
    /\ \E rot \in BOOLEAN, P \in SUBSET UIDS :
        Employee = [u \in UIDS |->
            IF u \in P
            THEN EmpRow(TRUE, FALSE, IF rot THEN Rotate(u) ELSE u)
            ELSE NoRow]
    /\ \E D \in SUBSET (UIDS \ {1}), blank \in BOOLEAN,
          name \in SeqsUpTo(Chars, MaxNameLen) :
        dev_users = [u \in UIDS |->
            IF u = 1 THEN NamedUser(IF blank THEN 0 ELSE u, name)
            ELSE IF u \in D THEN DevUser(u) ELSE NoUser]
    /\ dev_attendance = <<>>
    /\ NoReport
    /\ cmd = CmdIdle
    /\ poll = NoPoll
    /\ NoFingerprintSync
    /\ NoRangeReport
    /\ call = NoCall
    /\ conc = NoConc

NextImport ==
    \/ MarkRunning \/ FromStart \/ FromConnect \/ FromGetUsers
    \/ FromUpsert \/ FromTemplates \/ FromDisconnect \/ SaveDevice
    \/ Complete

SpecImport == InitImport /\ [][NextImport]_vars

\* ---- management command sync_fingerprints
FpFrame == UNCHANGED <<runnerVars, events, summary, cmd, poll, rangeVars, call, conc>>

FpFailed(op) == [fp EXCEPT !.pc = "done", !.failedOp = op]

\* handle(): the device, then the one employee asked for or the active ones
FpStart ==
    /\ fp.pc = "start"
    /\ fp' =
        IF ~deviceExists THEN FpFailed("lookup")
        ELSE IF fp.employee # 0 /\ ~Employee[fp.employee].present
        THEN FpFailed("lookup")
        ELSE [fp EXCEPT
                !.employees =
                    IF fp.employee # 0 THEN <<fp.employee>>
                    ELSE [k \in 1..Cardinality(ActiveUids) |->
                            ByEmployeeId(ActiveUids)[k].user_id],
                !.pc = IF fp.direction = "to" THEN "to_connect"
                       ELSE "from_connect"]
    /\ UNCHANGED <<Fingerprint, dev_templates>>
    /\ FpFrame

\* conn = connector.connect() of either direction
FpConnect ==
    /\ fp.pc \in {"from_connect", "to_connect"}
    /\ \E ok \in BOOLEAN :
        fp' = IF ok
              THEN [fp EXCEPT !.conn = "open", !.i = 0,
                        !.pc = IF fp.pc = "from_connect"
                               THEN "from_loop" ELSE "to_loop"]
              ELSE FpFailed("connect")
    /\ UNCHANGED <<Fingerprint, dev_templates>>
    /\ FpFrame

\* get_all_fingerprint_templates raising inside sync_from_device: the only
\* handler is the method's own, which raises CommandError
DownloadFailed(uid) == FpFailed("download")

\* one employee of sync_from_device: all templates, then update_or_create
FpDownload ==
    /\ fp.pc = "from_loop"
    /\ fp.i < Len(fp.employees)
    /\ LET uid == fp.employees[fp.i + 1]
       IN  \E ok \in BOOLEAN :
            IF ok
            THEN /\ Fingerprint' = Fingerprint \cup
                        {t \in dev_templates : t[1] = uid}
                 /\ fp' = [fp EXCEPT !.i = @ + 1,
                                     !.downloaded = @ \cup {uid}]
            ELSE /\ Fingerprint' = Fingerprint
                 /\ fp' = DownloadFailed(uid)
    /\ UNCHANGED dev_templates
    /\ FpFrame

\* Fingerprint.objects.filter(employee=employee); none: continue
FpNextEmployee ==
    /\ fp.pc = "to_loop"
    /\ fp.i < Len(fp.employees)
    /\ LET uid == fp.employees[fp.i + 1]
           slots == {t[2] : t \in {r \in Fingerprint : r[1] = uid}}
       IN  fp' = IF slots = {}
                 THEN [fp EXCEPT !.i = @ + 1, !.uploaded = @ \cup {uid}]
                 ELSE [fp EXCEPT !.fingerprints = Ascending(slots),
                                 !.j = 0, !.pc = "to_fingers"]
    /\ UNCHANGED <<Fingerprint, dev_templates>>
    /\ FpFrame

\* set_fingerprint_template: returns true, returns false, or raises
FpUpload ==
    /\ fp.pc = "to_fingers"
    /\ LET uid == fp.employees[fp.i + 1]
           slot == fp.fingerprints[fp.j + 1]
           last == fp.j + 1 = Len(fp.fingerprints)
       IN  \E result \in {"true", "false", "raised"} :
            /\ dev_templates' =
                IF result = "true" THEN dev_templates \cup {<<uid, slot>>}
                ELSE dev_templates
            /\ fp' = [fp EXCEPT
                    !.total_uploaded = IF result = "true" THEN @ + 1 ELSE @,
                    !.j = @ + 1,
                    !.i = IF last THEN @ + 1 ELSE @,
                    !.uploaded = IF last THEN @ \cup {uid} ELSE @,
                    !.pc = IF last THEN "to_loop" ELSE @]
    /\ UNCHANGED Fingerprint
    /\ FpFrame

\* conn.disconnect() after either loop
FpDisconnect ==
    /\ fp.pc \in {"from_loop", "to_loop"}
    /\ fp.i = Len(fp.employees)
    /\ \E ok \in BOOLEAN :
        fp' = IF ok
              THEN [fp EXCEPT !.conn = "closed",
                        !.pc = IF fp.pc = "from_loop" /\ fp.direction = "both"
                               THEN "to_connect" ELSE "done"]
              ELSE FpFailed("disconnect")
    /\ UNCHANGED <<Fingerprint, dev_templates>>
    /\ FpFrame

InitFingerprints ==
    /\ deviceExists \in BOOLEAN
    /\ jobType = "sync_to_device" /\ pc = "idle" /\ runs = 1
    /\ db_task = NewTask("Queuing") /\ task = NewTask("Queuing")
    /\ conn = "none" /\ loc = LocInit
    /\ AttendanceEvent = {}
    /\ last_sync = 0 /\ edits = 0 /\ hist = HistInit
    /\ dev_users = [u \in UIDS |-> NoUser]
    /\ dev_attendance = <<>>
    /\ \E kind \in [UIDS -> {"none", "inactive", "active"}] :
        /\ Employee = [u \in UIDS |->
                IF kind[u] = "none" THEN NoRow
                ELSE EmpRow(kind[u] = "active", FALSE, u)]
        /\ \E F \in SUBSET {u \in UIDS : kind[u] # "none"} :
                Fingerprint = F \X SampleSlots
    /\ \E D \in SUBSET UIDS : dev_templates = D \X SampleSlots
    /\ \E direction \in {"from", "to", "both"}, employee \in 0..MaxUid :
        fp = [FpIdle EXCEPT !.pc = "start", !.direction = direction,
                            !.employee = employee]
    /\ NoReport
    /\ cmd = CmdIdle
    /\ poll = NoPoll
    /\ NoRangeReport
    /\ call = NoCall
    /\ conc = NoConc

NextFingerprints ==
    \/ FpStart \/ FpConnect \/ FpDownload \/ FpNextEmployee \/ FpUpload
    \/ FpDisconnect

SpecFingerprints == InitFingerprints /\ [][NextFingerprints]_vars

\* ---- the range report and the daily reports over the same table
InitRange ==
    /\ jobType = "download_attendance" /\ deviceExists = FALSE
    /\ pc = "idle" /\ runs = 1
    /\ db_task = NewTask("Queuing") /\ task = NewTask("Queuing")
    /\ conn = "none" /\ loc = LocInit
    /\ Employee = [u \in UIDS |-> NoRow]
    /\ AttendanceEvent = {}
    /\ last_sync = 0
    /\ dev_users = [u \in UIDS |-> NoUser]
    /\ dev_attendance = <<>>
    /\ edits = 0 /\ hist = HistInit
    /\ NoReport /\ cmd = CmdIdle /\ poll = NoPoll /\ NoFingerprintSync
    /\ table \in {R \in SUBSET RowValues : Cardinality(R) <= MaxRows}
    /\ \E start_date \in Dates, end_date \in Dates :
        /\ start_date <= end_date
        /\ asked = <<start_date, end_date>>
    /\ ranged = <<>> /\ dailies = <<>>
    /\ call = NoCall
    /\ conc = NoConc

RangeFrame ==
    UNCHANGED <<runnerVars, events, summary, cmd, poll, fpVars, table, asked, call, conc>>

GetDateRangeSummary ==
    /\ ranged = <<>>
    /\ ranged' = date_range_summary(table, asked[1], asked[2])
    /\ dailies' = dailies
    /\ RangeFrame

\* get_daily_summary called for each date of the range
GetDailySummaries ==
    /\ dailies = <<>>
    /\ dailies' = [d \in Dates |->
            IF asked[1] <= d /\ d <= asked[2]
            THEN daily_summary(table, d)
            ELSE [e \in UIDS |-> NoEntry]]
    /\ ranged' = ranged
    /\ RangeFrame

NextRange == GetDateRangeSummary \/ GetDailySummaries

SpecRange == InitRange /\ [][NextRange]_vars

\* ---- the report page: one employee's events of one day
NoJob ==
    /\ jobType = "download_attendance" /\ deviceExists = FALSE
    /\ pc = "idle" /\ runs = 1
    /\ db_task = NewTask("Queuing") /\ task = NewTask("Queuing")
    /\ conn = "none" /\ loc = LocInit
    /\ Employee = [u \in UIDS |-> NoRow]
    /\ AttendanceEvent = {}
    /\ last_sync = 0
    /\ dev_users = [u \in UIDS |-> NoUser]
    /\ dev_attendance = <<>>
    /\ edits = 0 /\ hist = HistInit

InitReport ==
    /\ NoJob
    /\ events \in SeqsUpTo(Times, MaxEvents)
    /\ summary = NoSummary
    /\ cmd = CmdIdle
    /\ poll = NoPoll
    /\ NoFingerprintSync
    /\ NoRangeReport
    /\ call = NoCall
    /\ conc = NoConc

GetDailySummary ==
    /\ ~summary.returned
    /\ summary' = get_daily_summary(events)
    /\ UNCHANGED <<events, cmd, poll, fpVars, rangeVars, call, conc, runnerVars>>

NextReport == GetDailySummary

SpecReport == InitReport /\ [][NextReport]_vars

\* ---- two async_download_attendance jobs of one device, side by side
ConcFrame ==
    UNCHANGED <<jobType, deviceExists, pc, runs, db_task, task, conn, loc,
                Employee, last_sync, dev_users, dev_attendance, edits, hist,
                events, summary, cmd, poll, fpVars, rangeVars, call>>

InitConcurrent ==
    /\ jobType = "download_attendance" /\ deviceExists = TRUE
    /\ pc = "idle" /\ runs = 1
    /\ db_task = NewTask("Queuing") /\ task = NewTask("Queuing")
    /\ conn = "none" /\ loc = LocInit
    /\ Employee = [u \in UIDS |->
            IF u = 1 THEN EmpRow(TRUE, FALSE, u) ELSE NoRow]
    /\ last_sync = 0
    /\ dev_users = [u \in UIDS |-> NoUser]
    /\ dev_attendance \in SeqsUpTo(Punches, MaxPunches)
    /\ edits = 0 /\ hist = HistInit
    /\ NoReport /\ cmd = CmdIdle /\ poll = NoPoll /\ NoFingerprintSync
    /\ NoRangeReport
    /\ call = NoCall
    /\ \E stored \in BOOLEAN :
        AttendanceEvent =
            IF stored /\ dev_attendance # <<>>
            THEN always_create({}, dev_attendance[1],
                               MatchEmployee(dev_attendance[1])).rows
            ELSE {}
    /\ conc = [NoConc EXCEPT !.before = AttendanceEvent]

\* after one record: the next one, or the end of the loop
Advance(job) ==
    [job EXCEPT !.i = @ + 1,
                !.pc = IF job.i + 1 = Len(job.attendance_records)
                       THEN "done" ELSE "get"]

\* connect, get_attendance, disconnect: any of them may raise
ConcDownload(j) ==
    /\ conc.job[j].pc = "queued"
    /\ \E ok \in BOOLEAN :
        conc' = [conc EXCEPT !.job[j] =
            IF ~ok THEN [@ EXCEPT !.pc = "done", !.failed = TRUE]
            ELSE [@ EXCEPT !.attendance_records = dev_attendance,
                           !.pc = IF dev_attendance = <<>>
                                  THEN "done" ELSE "get"]]
    /\ AttendanceEvent' = AttendanceEvent
    /\ ConcFrame

\* Employee.objects.get, then the SELECT that opens get_or_create
ConcGet(j) ==
    /\ conc.job[j].pc = "get"
    /\ LET job == conc.job[j]
           record == job.attendance_records[job.i + 1]
       IN  conc' = [conc EXCEPT !.job[j] =
                IF \E row \in AttendanceEvent : SameKey(row, record)
                THEN Advance([job EXCEPT !.duplicate_count = @ + 1])
                ELSE [job EXCEPT !.pc = "create",
                                 !.employee = MatchEmployee(record)]]
    /\ AttendanceEvent' = AttendanceEvent
    /\ ConcFrame

\* a plain create() after the SELECT: the IntegrityError reaches the caller
insert_or_raise(rows, record, employee) ==
    LET got == get_or_create(rows, record, employee)
    IN  [rows |-> got.rows, created |-> got.created,
         raised |-> ~got.created]

\* the INSERT of get_or_create: unique_together rejects a second row of the
\* triple with an IntegrityError, after which get_or_create reads the row
\* that is there and returns created = False
insert_or_get(rows, record, employee) ==
    LET got == get_or_create(rows, record, employee)
    IN  [rows |-> got.rows, created |-> got.created, raised |-> FALSE]

ConcCreate(j) ==
    /\ conc.job[j].pc = "create"
    /\ LET job == conc.job[j]
           record == job.attendance_records[job.i + 1]
           got == insert_or_get(AttendanceEvent, record, job.employee)
       IN  /\ AttendanceEvent' = got.rows
           /\ conc' = [conc EXCEPT !.job[j] =
                IF got.raised
                THEN Advance([job EXCEPT !.error_count = @ + 1])
                ELSE IF got.created
                THEN Advance([job EXCEPT !.success_count = @ + 1])
                ELSE Advance([job EXCEPT !.duplicate_count = @ + 1])]
    /\ ConcFrame

NextConcurrent ==
    \E j \in JobIds : ConcDownload(j) \/ ConcGet(j) \/ ConcCreate(j)

SpecConcurrent == InitConcurrent /\ [][NextConcurrent]_vars

\* ---- the methods of TaskProgress, called in any order on a new tracker
MaxCalls == 3

Currents == {0, 5, 10}
Totals == {NoTotal, 0, 10}

InitTracker ==
    /\ NoJob
    /\ NoReport /\ cmd = CmdIdle /\ poll = NoPoll /\ NoFingerprintSync
    /\ NoRangeReport
    /\ call = NoCall
    /\ conc = NoConc

TrackerFrame ==
    UNCHANGED <<jobType, deviceExists, pc, runs, conn, loc, Employee,
                AttendanceEvent, last_sync, dev_users, dev_attendance,
                edits, hist, events, summary, cmd, poll, fpVars, rangeVars,
                conc>>

Called(op, current, total) ==
    /\ call.n < MaxCalls
    /\ call' = [op |-> op, current |-> current, total |-> total,
                n |-> call.n + 1]
    /\ TrackerFrame

CallUpdateProgress ==
    \E current \in Currents, total \in Totals,
       message \in {"", "Working"} :
        /\ Handle(update_progress([obj |-> task, row |-> db_task],
                                  current, total, message))
        /\ Called("update_progress", current, total)

CallMarkRunning ==
    /\ Handle(mark_running([obj |-> task, row |-> db_task]))
    /\ Called("mark_running", 0, NoTotal)

CallMarkCompleted ==
    /\ Handle(mark_completed([obj |-> task, row |-> db_task], "Done"))
    /\ Called("mark_completed", 0, NoTotal)

CallMarkFailed ==
    /\ Handle(mark_failed([obj |-> task, row |-> db_task], "Fatal error"))
    /\ Called("mark_failed", 0, NoTotal)

CallAddError ==
    /\ Handle(add_error([obj |-> task, row |-> db_task], <<"item", call.n>>))
    /\ Called("add_error", 0, NoTotal)

NextTracker ==
    \/ CallUpdateProgress \/ CallMarkRunning \/ CallMarkCompleted
    \/ CallMarkFailed \/ CallAddError

SpecTracker == InitTracker /\ [][NextTracker]_vars

\* ------------------------------------------------------------ properties
Finished == pc = "done"
RosterJob == jobType \in {"sync_to_device", "sync_from_device"}

\* C1: once a job has finished, the tracker's percentage is 100 exactly
\* when its status is completed; a failed job never shows 100.
C1_PercentIffCompleted ==
    Finished =>
        (db_task.progress_percentage = 100 <=> db_task.status = "completed")

\* C2: once the tracker's status is completed or failed, no later step
\* (a mark_* call, or a second execution of the runner) changes it.
C2_TerminalIsFinal ==
    [][db_task.status \in Terminal => db_task'.status = db_task.status]_vars

\* C3: a runner that raises before its first update_progress call still
\* returns (reaches "done") and leaves the tracker failed with a message.
C3_FatalBeforeProgress ==
    (Finished /\ ~hist.run.updated) =>
        /\ db_task.status = "failed"
        /\ db_task.message # ""
        /\ db_task.completed_at

C3_Witness ==
    /\ Finished
    /\ ~hist.run.updated
    /\ hist.run.failedOp = "device"
    /\ db_task.status = "failed"

\* C4: on every exit of a runner after connect() succeeded, the session
\* has been closed by disconnect().
C4_DisconnectOnEveryExit == Finished => conn # "open"

C6_ErrorsNeverLost ==
    /\ db_task.error_details = hist.errLog
    /\ db_task.error_count = Len(hist.errLog)

C6_Witness ==
    /\ Finished /\ runs = 2
    /\ Len(db_task.error_details) >= 3
    /\ hist.run.setUserOk # {}
    /\ hist.run.setUserFail # {}

LoopReached == hist.run.failedOp \notin {"device", "connect", "get_users"}

\* C7: in the roster jobs a failing item is recorded and the loop goes on:
\* a finished job has attempted every item, and ends completed unless an
\* operation outside the item loop raised.
C7_ItemFailuresIsolated ==
    (Finished /\ RosterJob /\ LoopReached) =>
        /\ hist.run.attempted =
                IF jobType = "sync_to_device"
                THEN Len(loc.employees) ELSE Len(loc.users)
        /\ loc.error_count <= hist.run.attempted
        /\ Len(db_task.error_details) >= loc.error_count
        /\ hist.run.failedOp = "" => db_task.status = "completed"
        /\ hist.run.failedOp # "" => hist.run.failedOp = "disconnect"

C7_Witness ==
    /\ Finished /\ jobType = "sync_to_device"
    /\ db_task.status = "completed"
    /\ hist.run.setUserFail = {1}
    /\ hist.run.setUserOk = {2}
    /\ loc.error_count = 1

PastDeleteLoop ==
    /\ jobType = "sync_to_device"
    /\ pc \in {"upsert", "save_device", "complete", "done"}

ToDelete == {loc.users_to_delete[k] : k \in 1..Len(loc.users_to_delete)}

\* C8 as stated: for every device user that is no active employee,
\* delete_user is issued and all ten fingerprint slots are attempted.
C8_AllSlotsForEveryObsoleteUser ==
    PastDeleteLoop =>
        \A uid \in ToDelete :
            /\ uid \in hist.run.deleteIssued
            /\ hist.run.slotTried[uid] = NumFingers

\* C8 amended: delete_user is issued for every such user; when it succeeds
\* all ten slots are attempted whatever the slots' outcomes, the user is
\* counted as deleted and nothing is added to the error list; when
\* delete_user itself raises, no slot is attempted and one error is added.
C8_SlotFailuresSwallowed ==
    /\ (jobType = "sync_to_device" /\ pc = "slots") =>
            hist.run.slotTried[loc.users_to_delete[loc.i + 1]]
                = loc.finger_idx
    /\ PastDeleteLoop =>
        /\ hist.run.deleteIssued = ToDelete
        /\ \A uid \in hist.run.deleteOk :
                hist.run.slotTried[uid] = NumFingers
        /\ \A uid \in ToDelete \ hist.run.deleteOk :
                hist.run.slotTried[uid] = 0
        /\ loc.deleted_count = Cardinality(hist.run.deleteOk)
        /\ runs = 1 =>
                Len(db_task.error_details) =
                    Cardinality(ToDelete \ hist.run.deleteOk)
                    + Cardinality(hist.run.setUserFail)

C8_Witness ==
    /\ Finished /\ jobType = "sync_to_device"
    /\ db_task.status = "completed"
    /\ hist.run.slotFailed = {1}
    /\ hist.run.deleteOk = {1, 2}
    /\ loc.deleted_count = 2
    /\ db_task.error_details = <<>>

UploadStep ==
    /\ jobType = "sync_to_device" /\ pc = "upsert"
    /\ loc'.i = loc.i + 1

\* C9: in sync-to-device a successful set_user stores the employee with
\* synced_to_device = TRUE, puts the user on the device and adds one to the
\* success counter, whether or not the user was on the device before; a
\* failing set_user leaves the employee's row, and so its flag, as it was.
C9_UploadMarksSynced ==
    [][UploadStep =>
        LET u == loc.employees[loc.i + 1].user_id
        IN  IF hist'.run.setUserOk # hist.run.setUserOk
            THEN /\ Employee'[u].present
                 /\ Employee'[u].synced_to_device
                 /\ dev_users'[u].present
                 /\ loc'.success_count = loc.success_count + 1
                 /\ loc'.error_count = loc.error_count
            ELSE /\ Employee'[u] = Employee[u]
                 /\ loc'.success_count = loc.success_count
                 /\ loc'.error_count = loc.error_count + 1]_vars

\* one employee uploaded to a device that did not hold it, one whose
\* upload failed and whose flag is still the TRUE it had
C9_Witness ==
    /\ Finished /\ jobType = "sync_to_device"
    /\ db_task.status = "completed"
    /\ edits = 0
    /\ hist.run.onDevice = {}
    /\ hist.run.setUserOk = {1}
    /\ hist.run.setUserFail = {2}
    /\ Employee[1].synced_to_device
    /\ dev_users[1].present
    /\ Employee[2].synced_to_device
    /\ loc.success_count = 1

UploadOk(u) == u \in hist'.run.setUserOk \ hist.run.setUserOk

DownloadOk(u) ==
    /\ jobType = "sync_from_device"
    /\ pc = "users" /\ pc' = "templates"
    /\ loc.users[loc.i + 1].uid = u

FlagRises(u) ==
    /\ ~(Employee[u].present /\ Employee[u].synced_to_device)
    /\ Employee'[u].present /\ Employee'[u].synced_to_device

EditClearsFlag(u) ==
    (edits' # edits /\ Employee'[u] # Employee[u])
        => ~Employee'[u].synced_to_device

C11_FinalCountsPersisted ==
    (Finished /\ db_task.status = "completed") =>
        /\ db_task.success_count = loc.success_count
        /\ db_task.error_count = loc.error_count

\* C12: whenever the stored progress_total is positive, the stored
\* progress_percentage is floor(progress_current / progress_total * 100).
C12_PercentageIsFormula ==
    db_task.progress_total > 0 =>
        db_task.progress_percentage =
            (db_task.progress_current * 100) \div db_task.progress_total

\* C13: the tracker starts pending, and every change of the stored status
\* is pending -> running, running -> completed or running -> failed; in
\* particular completed and failed are entered from running only and
\* cancelled is never written.
C13_StatusStateMachine ==
    /\ db_task.status = "pending"
    /\ [][db_task'.status # db_task.status =>
            <<db_task.status, db_task'.status>> \in
                {<<"pending", "running">>, <<"running", "completed">>,
                 <<"running", "failed">>}]_vars

HasExit(s, i) == \E j \in (i + 1)..Len(s) : s[j] - s[i] >= MinGap

InNoPair(P, k) == \A n \in 1..Len(P) : P[n].first # k /\ P[n].second # k

\* P is the greedy minimum-gap pairing of the ascending list s
GreedyPairing(s, P) ==
    /\ \A n \in 1..Len(P) :
        LET resume == IF n = 1 THEN 1 ELSE P[n - 1].second + 1
            q == P[n]
        IN  /\ q.first >= resume
            /\ \A k \in resume..(q.first - 1) : ~HasExit(s, k)
            /\ q.second > q.first /\ q.second <= Len(s)
            /\ s[q.second] - s[q.first] >= MinGap
            /\ \A k \in (q.first + 1)..(q.second - 1) :
                    /\ s[k] - s[q.first] < MinGap
                    /\ InNoPair(P, k)
            /\ q.first_timestamp = s[q.first]
            /\ q.second_timestamp = s[q.second]
            /\ q.minutes = s[q.second] - s[q.first]
    /\ LET resume == IF P = <<>> THEN 1 ELSE P[Len(P)].second + 1
       IN  \A k \in resume..Len(s) : ~HasExit(s, k) /\ InNoPair(P, k)

IsAscending(s) == \A k \in 1..(Len(s) - 1) : s[k] <= s[k + 1]

\* C14: the pairs returned are the greedy minimum-gap pairing of the
\* events in ascending order: each entry is the earliest event after the
\* previous exit that has an event at least 30 minutes later, its exit is
\* the first such event, the events between them are in no pair, and the
\* events left over have no event 30 minutes later; 09:00, 09:05, 17:00
\* give the single pair (09:00, 17:00, 480).
C14_GreedyMinGapPairing ==
    summary.returned =>
        /\ IsAscending(summary.events)
        /\ GreedyPairing(summary.events, summary.pairs)
        /\ summary.events = <<540, 545, 1020>> =>
                summary.pairs =
                    <<[first |-> 1, second |-> 3, first_timestamp |-> 540,
                       second_timestamp |-> 1020, minutes |-> 480]>>

C14_Witness ==
    /\ summary.returned
    /\ events = <<1020, 540, 545>>
    /\ Len(summary.pairs) = 1
    /\ summary.pairs[1].minutes = 480
    /\ InNoPair(summary.pairs, 2)

WorkingHours(t) == DayStart <= t /\ t <= DayEnd

Count(s, t) == Cardinality({k \in 1..Len(s) : s[k] = t})

\* C15: every entry and exit of a pair lies in [06:00, 22:00]; the events
\* the summary counts are exactly the stored events in that window, the
\* ones at 06:00 and at 22:00 included, so the unpaired count is the
\* number of events in the window less two per pair.
C15_OutsideHoursNeverCounted ==
    summary.returned =>
        /\ \A n \in 1..Len(summary.pairs) :
            /\ WorkingHours(summary.pairs[n].first_timestamp)
            /\ WorkingHours(summary.pairs[n].second_timestamp)
        /\ \A t \in Times :
            Count(summary.events, t) =
                IF WorkingHours(t) THEN Count(events, t) ELSE 0
        /\ summary.unpaired_events =
            Cardinality({k \in 1..Len(events) : WorkingHours(events[k])})
                - 2 * Len(summary.pairs)

C15_Witness ==
    /\ summary.returned
    /\ events = <<1321, 1320, 360>>
    /\ summary.events = <<360, 1320>>
    /\ summary.total_pairs = 1
    /\ summary.unpaired_events = 0

\* C16: clear_attendance is issued, and the device's log emptied, only by
\* the sync_attendance command, only when --clear was given and this
\* invocation has inserted at least one record, and only once its loop
\* over the records has finished; the background job and the download
\* view never issue it.
C16_ClearOnlyWhenRequested ==
    [][(cmd'.clears # cmd.clears \/ dev_attendance' # dev_attendance) =>
        /\ cmd.pc = "records"
        /\ cmd.clear_device
        /\ cmd.success_count > 0
        /\ cmd.i = Len(cmd.attendance_records)
        /\ cmd.success_count + cmd.duplicate_count + cmd.error_count
                = Len(cmd.attendance_records)
        /\ cmd'.clears = cmd.clears + 1
        /\ UNCHANGED <<pc, AttendanceEvent>>]_vars

\* a first invocation cleared the device, a second one with --clear found
\* nothing new and did not
C16_Witness ==
    /\ cmd.pc = "done" /\ cmd.invoked = 2
    /\ cmd.clear_device
    /\ cmd.conn = "closed"
    /\ cmd.success_count = 0
    /\ cmd.clears = 1
    /\ dev_attendance = <<>>
    /\ AttendanceEvent # {}

RecordStep ==
    /\ jobType = "download_attendance" /\ pc = "records"
    /\ loc'.i = loc.i + 1

Answered == poll.code = 200

\* C18: in every response of the status endpoint that carries the tracker,
\* the progress_percentage returned is the one update_progress computes
\* from the progress_current and progress_total returned with it.
C18_PollSeesMatchingProgress ==
    (Answered /\ poll.task[1].progress_total > 0) =>
        poll.task[1].progress_percentage =
            Percentage(poll.task[1].progress_current,
                       poll.task[1].progress_total)

Denied ==
    [caller |-> "other", known |-> TRUE, code |-> 403,
     error |-> "Permission denied", task |-> <<>>]

\* C19: a response of the status endpoint carries the tracker's fields only
\* when the caller is the task's owner or a staff user, and then it carries
\* the stored row; any other caller asking for an existing task gets the
\* same 403 response whatever the row holds.
C19_OnlyOwnerOrStaffReads ==
    [][poll' # poll =>
        /\ poll'.task # <<>> =>
            /\ poll'.caller \in {"owner", "staff"}
            /\ poll'.code = 200
            /\ poll'.task = <<Body(db_task)>>
        /\ (poll'.known /\ poll'.caller \in {"owner", "staff"}) =>
            poll'.task # <<>>
        /\ (poll'.known /\ poll'.caller = "other") => poll' = Denied]_vars

\* another user is refused while the tracker holds a finished job's errors
C19_Witness ==
    /\ poll = Denied
    /\ Finished /\ db_task.status = "completed"
    /\ db_task.error_details # <<>>

LoopFinished ==
    loc.i = Len(CASE jobType = "sync_to_device" -> loc.employees
                  [] jobType = "sync_from_device" -> loc.users
                  [] OTHER -> loc.attendance_records)

\* C20: a runner writes last_sync only in the step that follows its item
\* loop and the closing of the session and precedes mark_completed, once
\* per execution; a first execution that ends failed, for one because
\* connect raised, leaves last_sync as it was, and one that reaches
\* mark_completed has written it.
C20_LastSyncOnCompletionOnly ==
    /\ [](/\ last_sync <= runs
          /\ (runs = 1 /\ db_task.status = "failed") => last_sync = 0
          /\ (runs = 1 /\ (pc = "complete" \/ db_task.status = "completed"))
                => last_sync = 1)
    /\ [][last_sync' # last_sync =>
            /\ pc = "save_device" /\ pc' = "complete"
            /\ db_task.status = "running"
            /\ db_task' = db_task
            /\ conn = "closed"
            /\ LoopFinished
            /\ hist.run.failedOp = ""
            /\ last_sync' = last_sync + 1]_vars

\* a first execution completed and stamped the device; the second could not
\* open the session and left the stamp alone
C20_Witness ==
    /\ Finished /\ runs = 2
    /\ db_task.status = "failed"
    /\ hist.run.failedOp = "connect"
    /\ last_sync = 1

BecomesFailed == db_task.status # "failed" /\ db_task'.status = "failed"

\* C21: the step that marks the tracker failed changes no Employee row, no
\* AttendanceEvent row, nothing on the device and nothing of the tracker's
\* error list and counter; so in a failed job every employee uploaded
\* before the failure is still stored as synced and is still on the device,
\* and the stored error list is still every error recorded.
C21_PartialProgressDurable ==
    /\ [][BecomesFailed =>
            /\ Employee' = Employee
            /\ AttendanceEvent' = AttendanceEvent
            /\ dev_users' = dev_users
            /\ db_task'.error_details = db_task.error_details
            /\ db_task'.error_count = db_task.error_count]_vars
    /\ []((Finished /\ db_task.status = "failed") =>
            /\ \A u \in hist.run.setUserOk :
                /\ Employee[u].present /\ Employee[u].synced_to_device
                /\ dev_users[u].present
            /\ db_task.error_details = hist.errLog
            /\ jobType = "sync_from_device" =>
                    loc.success_count <=
                        Cardinality({u \in UIDS : Employee[u].present}))

\* the upload of employee 1 succeeded, that of employee 2 failed and was
\* recorded, then disconnect raised
C21_Witness ==
    /\ Finished /\ runs = 1 /\ jobType = "sync_to_device"
    /\ db_task.status = "failed"
    /\ hist.run.failedOp = "disconnect"
    /\ hist.run.setUserOk = {1}
    /\ hist.run.setUserFail = {2}
    /\ Employee[1].synced_to_device
    /\ Len(db_task.error_details) = 1

FpEmployees == {fp.employees[k] : k \in 1..Len(fp.employees)}

\* C22: when the fingerprint sync has ended and neither the lookups nor
\* connect nor disconnect failed, every employee of the list was processed
\* in each direction asked for and the session is closed, whatever
\* happened to single downloads and uploads.
C22_FingerprintFailuresIsolated ==
    (fp.pc = "done" /\ fp.failedOp \notin {"lookup", "connect", "disconnect"})
        => /\ fp.conn = "closed"
           /\ fp.direction \in {"from", "both"} => fp.downloaded = FpEmployees
           /\ fp.direction \in {"to", "both"} => fp.uploaded = FpEmployees

\* C23: for every date of the range asked for and every employee or orphan
\* user, the entry of the range summary under (date, employee) is the entry
\* of that date's daily summary: the same pairs, pair count, worked minutes,
\* first entry, last exit and unpaired count; and both events of every pair
\* of the range summary fall on the date the pair is reported under.
C23_RangeEqualsDaily ==
    /\ (ranged # <<>> /\ dailies # <<>>) =>
        \A d \in Dates : (asked[1] <= d /\ d <= asked[2]) =>
            \A e \in UIDS :
                /\ ranged[d][e].present = dailies[d][e].present
                /\ ranged[d][e].pairs = dailies[d][e].pairs
                /\ ranged[d][e].total_pairs = dailies[d][e].total_pairs
                /\ ranged[d][e].total_work_minutes
                        = dailies[d][e].total_work_minutes
                /\ ranged[d][e].first_entry = dailies[d][e].first_entry
                /\ ranged[d][e].last_exit = dailies[d][e].last_exit
                /\ ranged[d][e].unpaired_events
                        = dailies[d][e].unpaired_events
    /\ ranged # <<>> =>
        \A d \in Dates, e \in UIDS :
            \A k \in 1..Len(ranged[d][e].pairs) :
                /\ d * MinutesPerDay <= ranged[d][e].pairs[k].first_timestamp
                /\ ranged[d][e].pairs[k].second_timestamp
                        < (d + 1) * MinutesPerDay

\* one employee with a pair on date 0 and a lone event the next morning,
\* both dates asked for, both reports computed
C23_Witness ==
    /\ ranged # <<>> /\ dailies # <<>>
    /\ asked = <<0, 1>>
    /\ \E e \in UIDS :
        /\ ranged[0][e].total_pairs = 1
        /\ ranged[0][e].total_work_minutes = 480
        /\ ranged[1][e].present
        /\ ranged[1][e].unpaired_events = 1
        /\ ranged[1][e].first_entry = -1

\* C24: when the download of the roster has completed, every device user
\* has a local employee under its uid whose first name is the first
\* whitespace-separated token of the device name and whose last name is the
\* remaining tokens joined by single spaces, or User<uid> and the empty
\* string when the device name is empty; a blank device employee id gives
\* the employee id synthesized from the uid.
C24_EveryDeviceUserImported ==
    (jobType = "sync_from_device" /\ task.status = "completed") =>
        \A u \in UIDS : dev_users[u].present =>
            LET user == [uid |-> u, user_id |-> dev_users[u].user_id,
                         name |-> dev_users[u].name]
                tokens == split(user.name)
            IN  /\ Employee[u].present
                /\ user.name = <<>> =>
                    /\ Employee[u].first_name = UserN(u)
                    /\ Employee[u].last_name = <<>>
                /\ tokens # <<>> =>
                    /\ Employee[u].first_name = tokens[1]
                    /\ Employee[u].last_name = join(Tail(tokens))
                /\ user.user_id = 0 => Employee[u].employee_id = u

\* C25 as stated: a call of update_progress without a total leaves
\* progress_total as it was; whenever progress_total is not greater than 0
\* after the call, progress_percentage is 0 after the call; and the call
\* changes neither the status, the counters nor the error list.
C25_PercentageZeroWithoutTotal ==
    [][(call'.n # call.n /\ call'.op = "update_progress") =>
        /\ call'.total = NoTotal =>
            task'.progress_total = task.progress_total
        /\ task'.progress_total <= 0 => task'.progress_percentage = 0
        /\ task'.status = task.status
        /\ task'.success_count = task.success_count
        /\ task'.error_count = task.error_count
        /\ task'.error_details = task.error_details]_vars

\* C25, amended: a call of update_progress without a total leaves
\* progress_total as it was; whenever progress_total is not greater than 0
\* after the call, progress_percentage is what it was before the call; and
\* the call changes neither the status, the counters nor the error list, in
\* the object and in the stored row.
C25_PercentageKeptWithoutTotal ==
    [][(call'.n # call.n /\ call'.op = "update_progress") =>
        /\ call'.total = NoTotal =>
            /\ task'.progress_total = task.progress_total
            /\ db_task'.progress_total = task.progress_total
        /\ task'.progress_total <= 0 =>
            /\ task'.progress_percentage = task.progress_percentage
            /\ db_task'.progress_percentage = task.progress_percentage
        /\ task'.status = task.status
        /\ task'.success_count = task.success_count
        /\ task'.error_count = task.error_count
        /\ task'.error_details = task.error_details
        /\ db_task'.status = db_task.status
        /\ db_task'.success_count = db_task.success_count
        /\ db_task'.error_count = db_task.error_count
        /\ db_task'.error_details = db_task.error_details]_vars

\* a completed tracker with an error recorded, then update_progress called
\* without a total: the total is still 0 and the percentage still 100
C25_Witness ==
    /\ call.op = "update_progress" /\ call.total = NoTotal
    /\ call.current = 5
    /\ task.progress_current = 5
    /\ task.progress_total = 0
    /\ task.progress_percentage = 100
    /\ task.status = "completed"
    /\ task.error_count = 1

\* C26: in every reachable state of every job the stored progress_percentage
\* lies between 0 and 100 and the stored progress_current does not exceed
\* the stored progress_total, whatever the number of items.
C26_ProgressWithinBounds ==
    /\ 0 <= db_task.progress_percentage
    /\ db_task.progress_percentage <= 100
    /\ db_task.progress_current <= db_task.progress_total

\* C27: when a job has completed, every item it processed is counted in
\* exactly one outcome counter: new + updated + errors is the number of
\* device users in the roster download, success + errors the number of
\* active employees in the roster upload, and new + duplicates + errors the
\* number of punches in the attendance download.
C27_EveryItemCountedOnce ==
    (Finished /\ db_task.status = "completed") =>
        /\ jobType = "sync_from_device" =>
            loc.success_count + loc.updated_count + loc.error_count
                = Len(loc.users)
        /\ jobType = "sync_to_device" =>
            loc.success_count + loc.error_count = Len(loc.employees)
        /\ jobType = "download_attendance" =>
            loc.success_count + loc.duplicate_count + loc.error_count
                = Len(loc.attendance_records)

\* C28: two attendance downloads of one device running side by side over
\* the same punches never leave two rows for one (user id, timestamp) of
\* the device; and once both have ended, every punch either of them read
\* has its row, neither has counted an error, and their success counts add
\* up to the number of rows inserted since they were queued.
C28_ConcurrentDownloadsInsertOnce ==
    /\ \A r1, r2 \in AttendanceEvent : SameKey(r1, r2) => r1 = r2
    /\ (\A j \in JobIds : conc.job[j].pc = "done") =>
        /\ \A j \in JobIds :
            /\ conc.job[j].error_count = 0
            /\ \A k \in 1..Len(conc.job[j].attendance_records) :
                Cardinality({row \in AttendanceEvent :
                    SameKey(row, conc.job[j].attendance_records[k])}) = 1
        /\ conc.job[1].success_count + conc.job[2].success_count
            = Cardinality(AttendanceEvent \ conc.before)

\* both jobs read the same two punches and both have ended; each inserted
\* one of them and met the other as a duplicate
C28_Witness ==
    /\ \A j \in JobIds :
        /\ conc.job[j].pc = "done"
        /\ conc.job[j].attendance_records = dev_attendance
        /\ conc.job[j].success_count = 1
        /\ conc.job[j].duplicate_count = 1
    /\ Cardinality(AttendanceEvent) = 2
    /\ conc.before = {}

\* C29: the sync_attendance command issues clear_attendance only when no
\* record of its download failed to be inserted, so that every punch the
\* download returned has its AttendanceEvent row when the log is cleared.
C29_NoClearAfterFailedInsert ==
    [][cmd'.clears # cmd.clears =>
        /\ cmd.error_count = 0
        /\ \A k \in 1..Len(cmd.attendance_records) :
            \E row \in AttendanceEvent :
                SameKey(row, cmd.attendance_records[k])]_vars

NoDeviceFailure ==
    /\ hist.run.failedOp = ""
    /\ hist.run.deleteOk = hist.run.deleteIssued
    /\ hist.run.slotFailed = {}
    /\ hist.run.setUserFail = {}

\* C30: the roster upload never issues delete_user for the uid of an active
\* employee, and when a run has ended without any device operation failing
\* the uids on the device are exactly the user ids of the active employees.
C30_DeviceConvergesToActive ==
    /\ jobType = "sync_to_device" =>
        hist.run.deleteIssued \cap ActiveUids = {}
    /\ (jobType = "sync_to_device" /\ Finished /\ NoDeviceFailure) =>
        DeviceUids = ActiveUids

\* a run without failures that found one obsolete user and one active
\* employee missing from the device: the first deleted, the second uploaded
C30_Witness ==
    /\ jobType = "sync_to_device" /\ Finished /\ NoDeviceFailure
    /\ hist.run.deleteIssued # {}
    /\ hist.run.setUserOk \ hist.run.onDevice # {}
    /\ DeviceUids = ActiveUids
    /\ DeviceUids # hist.run.onDevice

====
